---- MODULE Spec2Model ----
(***************************************************************************)
(* deepda: the variational solvers apply_3DVar / apply_4DVar               *)
(* (src/deepda/variational.py) and the CaseBuilder that feeds them         *)
(* (src/deepda/builder.py).                                                *)
(*                                                                         *)
(* Numbers.  A state row is one integer, measured in units of the          *)
(* learning rate.  B and R are 1x1 positive matrices given by their        *)
(* inverses Binv and Rinv, so torch.linalg.solve(B, v) is Binv * v and     *)
(* B = I is Binv = 1.  H is a linear observation operator x |-> h * x.     *)
(* Tensors are objects [shape, sid] over a store of storages, so that a    *)
(* view shares its storage and a clone does not.                           *)
(***************************************************************************)
EXTENDS Integers, Sequences, FiniteSets, TLC

\* ------------------------------------------------------------------ bounds
MaxIter == 2
MaxSeq == 2
MaxGap == 2
MaxL == 3

\* ------------------------------------------------------- small input sets
Vals == {0, 2}
Vals4D == {0, 1}
MutVals == {9}
OperatorSet ==
    {[H |-> "identity", Binv |-> 1, Rinv |-> 1], [H |-> "identity", Binv |-> 1, Rinv |-> 2],
     [H |-> "double", Binv |-> 2, Rinv |-> 1], [H |-> "double", Binv |-> 1, Rinv |-> 1]}
ArgsSet == {<<"None">>, <<"a", "b">>}
DriftSet == {0, 1}

\* -------------------------------------------------------- integer helpers
Abs(v) == IF v < 0 THEN -v ELSE v

Sign(v) == IF v > 0 THEN 1 ELSE IF v < 0 THEN -1 ELSE 0

Min(a, b) == IF a < b THEN a ELSE b

Pow10(k) ==
    LET p[i \in 0..k] == IF i = 0 THEN 1 ELSE 10 * p[i - 1]
    IN  p[k]

SumSeq(s) ==
    LET sum[i \in 0..Len(s)] == IF i = 0 THEN 0 ELSE sum[i - 1] + s[i]
    IN  sum[Len(s)]

\* ---------------------------------------------------------------- tensors
NoRef == [shape |-> <<>>, sid |-> 0]

\* t.unsqueeze(0): a view of the same storage with a leading dimension.
Unsqueeze0(t) == [shape |-> <<1>> \o t.shape, sid |-> t.sid]

\* t.reshape_as(other): a view of t's storage with other's shape.
ReshapeAs(t, other) == [shape |-> other.shape, sid |-> t.sid]

\* A clone that shares the storage of t.
CloneAliased(st, t) == [store |-> st, ref |-> t]

\* t.detach().clone(): a tensor over a fresh storage holding t's values.
Clone(st, t) ==
    [store |-> Append(st, st[t.sid]), ref |-> [shape |-> t.shape, sid |-> Len(st) + 1]]

\* y.unsqueeze(0) if y.ndim == 1 else y, for a tensor value [shape, data].
Inner(v) == IF Len(v.shape) = 1 THEN [shape |-> <<1>> \o v.shape, data |-> v.data] ELSE v

\* H(x) for the linear observation operators of OperatorSet.
HCoef(H) == IF H = "identity" THEN 1 ELSE 2

HApply(H, x) == HCoef(H) * x

\* v @ torch.linalg.solve(A, v) for a 1x1 matrix A given by its inverse.
Quad(Ainv, v) == v * Ainv * v

\* torch.linspace(a, b, steps) as exact fractions <<numerator, denominator>>.
Linspace(a, b, steps) ==
    IF steps = 1 THEN << <<a, 1>> >>
    ELSE [j \in 1..steps |-> <<a * (steps - 1) + (j - 1) * (b - a), steps - 1>>]

\* The forward model: one entry per grid point, starting from the last
\* entry of the state it is given; xf.size(1) is m.seqlen.
MOf(m, xp, time_fw) == [j \in 1..Len(time_fw) |-> xp[Len(xp)] + (j - 1) * m.drift]

\* ------------------------------------------------------------ 3D-Var cost
\* One batch element of the loss of apply_3DVar (lines 37-43) and its
\* derivative in the candidate row.
Term3D(c, x, xbv, yv) ==
    Quad(c.Binv, x - xbv) + Quad(c.Rinv, yv - HApply(c.H, x))

DTerm3D(c, x, xbv, yv) ==
    2 * c.Binv * (x - xbv) - 2 * HCoef(c.H) * c.Rinv * (yv - HApply(c.H, x))

\* The loop over range(sequence_length) against y_inner (lines 35-43),
\* with the gradient the graph of loss yields on backward.
Loss3DOver(c, x, xbv, y_inner) ==
    IF y_inner.shape[1] < Len(xbv)
    THEN [error |-> "IndexError", calls |-> <<>>, terms |-> <<>>]
    ELSE [error |-> "none", calls |-> <<>>, terms |-> <<>>,
          J |-> SumSeq([i \in 1..Len(xbv) |-> Term3D(c, x[i], xbv[i], y_inner.data[i])]),
          graph |-> [i \in 1..Len(xbv) |-> DTerm3D(c, x[i], xbv[i], y_inner.data[i])]]

Loss3D(c, x, xbv) == Loss3DOver(c, x, xbv, Inner(c.y))

\* ------------------------------------------------------------ 4D-Var cost
\* Jb(x0, xb, y[0]) of apply_4DVar (lines 84-90).
Jb(c, x0, xbv, y0) == Quad(c.Binv, x0 - xbv) + Quad(c.Rinv, y0 - HApply(c.H, x0))

\* Jo(xp, y) of apply_4DVar (lines 92-94) and its derivative in xp.
Jo(c, xp, yv) == Quad(c.Rinv, yv - HApply(c.H, xp))

DJo(c, xp, yv) == - 2 * HCoef(c.H) * c.Rinv * (yv - HApply(c.H, xp))

\* time_fw = torch.linspace(current_time, time_ibos, gap + 1)
TimeFw(c, current_time, time_ibos) == Linspace(current_time, time_ibos, c.gap + 1)

\* xf[-sequence_length:]: the trailing sequence_length entries of xf, all
\* of xf when it has fewer.
Trailing(c, xf) ==
    [i \in 1..Min(c.M.seqlen, Len(xf)) |-> xf[Len(xf) - Min(c.M.seqlen, Len(xf)) + i]]

\* How many i of range(sequence_length) have both xp[i] and y[iobs, i].
Reach(c, xp) == Min(Min(c.M.seqlen, Len(xp)), c.y.shape[2])

\* for i in range(sequence_length): loss_Jo += Jo(xp[i], y[iobs, i]); the
\* loop raises IndexError when it outruns xp or y.  acc carries xp,
\* current_time, loss_Jo, its derivative, the calls made to M and the
\* entries <<iobs, index into xf>> that entered loss_Jo.
SegmentSum(c, iobs, acc, call, xp, cnt) ==
    [xp |-> xp,
     current_time |-> c.time_obs[iobs + 1],
     loss_Jo |-> acc.loss_Jo + SumSeq([i \in 1..cnt |-> Jo(c, xp[i], c.y.data[iobs + 1][i])]),
     dJo |-> acc.dJo + SumSeq([i \in 1..cnt |-> DJo(c, xp[i], c.y.data[iobs + 1][i])]),
     calls |-> Append(acc.calls, call),
     terms |-> acc.terms
         \o [i \in 1..cnt |-> [iobs |-> iobs, j |-> Len(call.xf) - Len(xp) + i]],
     error |-> IF cnt < c.M.seqlen THEN "IndexError" ELSE "none"]

SegmentKeep(c, iobs, acc, call, xp) == SegmentSum(c, iobs, acc, call, xp, Reach(c, xp))

\* xf = M(xp, time_fw, *args); xp = xf[-sequence_length:]
SegmentCall(c, iobs, acc, time_fw, xf) ==
    SegmentKeep(c, iobs, acc,
                [state |-> acc.xp, time_fw |-> time_fw, args |-> c.args, xf |-> xf],
                Trailing(c, xf))

SegmentGrid(c, iobs, acc, time_fw) ==
    SegmentCall(c, iobs, acc, time_fw, MOf(c.M, acc.xp, time_fw))

\* The body of the loop over time_obs[1:] (lines 104-113) for segment iobs.
Segment(c, iobs, acc) ==
    SegmentGrid(c, iobs, acc, TimeFw(c, acc.current_time, c.time_obs[iobs + 1]))

\* for iobs, time_ibos in enumerate(time_obs[1:], start=1), stopping at
\* the first segment that raises.
SegmentAfter(c, iobs, acc) == IF acc.error # "none" THEN acc ELSE Segment(c, iobs, acc)

Segments(c, acc0) ==
    LET after[k \in 0..(Len(c.time_obs) - 1)] ==
          IF k = 0 THEN acc0 ELSE SegmentAfter(c, k, after[k - 1])
    IN  after[Len(c.time_obs) - 1]

\* total_loss = loss_Jb + loss_Jo (line 114), with its gradient in x0.
Total4D(c, loss_Jb, dJb, seg) ==
    [error |-> seg.error,
     Jb |-> loss_Jb,
     Jo |-> seg.loss_Jo,
     J |-> loss_Jb + seg.loss_Jo,
     JoIsTensor |-> Len(c.time_obs) > 1,
     graph |-> << dJb + seg.dJo >>,
     calls |-> seg.calls,
     terms |-> seg.terms]

\* One evaluation of the 4D-Var cost at candidate x0 (lines 100-114).
Loss4D(c, x0, xbv) ==
    Total4D(c,
            Jb(c, x0[1], xbv[1], c.y.data[1][1]),
            DTerm3D(c, x0[1], xbv[1], c.y.data[1][1]),
            Segments(c, [xp |-> x0, current_time |-> c.time_obs[1], loss_Jo |-> 0,
                         dJo |-> 0, calls |-> <<>>, terms |-> <<>>, error |-> "none"]))

\* torch.norm(new_x0.grad), kept as its square (the sum of squares).
NormSq(g) == SumSeq([i \in 1..Len(g) |-> g[i] * g[i]])

\* ------------------------------------------------------------------- Adam
\* trainer.step() of torch.optim.Adam (beta1 = 0.9, no weight decay): the
\* first moment is kept exactly, scaled by 10^t; the parameter moves
\* against its sign by one unit of the learning rate, and does not move
\* when the moment is zero.
AdamMoment(tr, g) ==
    [i \in 1..Len(g) |-> 9 * tr.exp_avg[i] + Pow10(tr.t) * g[i]]

\* An update that moves whatever the moment is.
AdamUpdateBlind(x, m) == [i \in 1..Len(x) |-> x[i] - 1]

AdamUpdate(x, m) == [i \in 1..Len(x) |-> x[i] - Sign(m[i])]

\* ------------------------------------------------- the solver, step by step
\* Each operator maps the solver's state r (a record of the variables
\* below) to the state after one step of apply_3DVar / apply_4DVar.

Is3D(r) == r.call.algorithm = "3DVar"

Raise(r, e) == [r EXCEPT !.pc = "raised", !.error = e]

EmptyResults(alg) ==
    IF alg = "3DVar"
    THEN [J |-> <<>>, J_grad_norm |-> <<>>, background_states |-> <<>>]
    ELSE [Jb |-> <<>>, Jo |-> <<>>, J_grad_norm |-> <<>>, background_states |-> <<>>]

\* xb_inner = xb.unsqueeze(0) if xb.ndim == 1 else xb  (3D-Var, line 20)
XbInner(c) ==
    IF c.algorithm = "3DVar" /\ Len(c.xb.shape) = 1 THEN Unsqueeze0(c.xb) ELSE c.xb

\* Lines 20-32 of apply_3DVar, lines 75-97 of apply_4DVar.
SetupWith(r, cl) ==
    [r EXCEPT !.pc = "loop",
              !.store = cl.store,
              !.new_x0 = cl.ref,
              !.intermediate_results = EmptyResults(r.call.algorithm),
              !.trainer = [t |-> 0,
                           exp_avg |-> [i \in 1..Len(r.store[r.call.xb.sid]) |-> 0]]]

SetupOf(r) == SetupWith(r, Clone(r.store, XbInner(r.call)))

\* A loop that also stops once the recorded gradient norm is 0.
LoopOfEarlyStop(r) ==
    IF r.n < r.call.max_iterations /\ ~(r.n > 0 /\ r.J_grad_norm = 0)
    THEN [r EXCEPT !.pc = "zero_grad"]
    ELSE [r EXCEPT !.pc = "return"]

\* for n in range(max_iterations)  (lines 33 / 98)
LoopOf(r) ==
    IF r.n < r.call.max_iterations
    THEN [r EXCEPT !.pc = "zero_grad"]
    ELSE [r EXCEPT !.pc = "return"]

\* trainer.zero_grad(set_to_none=True)  (lines 34 / 99)
ZeroGradOf(r) == [r EXCEPT !.pc = "forward", !.grad = <<>>, !.hasGrad = FALSE]

\* The cost at the current candidate (lines 35-43 / 100-114).
LossOf(r) ==
    IF Is3D(r)
    THEN Loss3D(r.call, r.store[r.new_x0.sid], r.store[r.call.xb.sid])
    ELSE Loss4D(r.call, r.store[r.new_x0.sid], r.store[r.call.xb.sid])

ForwardWith(r, l) ==
    IF l.error # "none"
    THEN [r EXCEPT !.pc = "raised", !.error = l.error,
                   !.evals = Append(r.evals, r.store[r.new_x0.sid]),
                   !.Mcalls = l.calls, !.JoTerms = l.terms]
    ELSE [r EXCEPT !.pc = "backward", !.loss = l,
                   !.evals = Append(r.evals, r.store[r.new_x0.sid]),
                   !.Mcalls = l.calls, !.JoTerms = l.terms]

ForwardOf(r) == ForwardWith(r, LossOf(r))

\* loss.backward(...) and the reads that follow it (lines 44-45 / 115-116).
BackwardOf(r) ==
    [r EXCEPT !.pc = "log",
              !.grad = r.loss.graph,
              !.hasGrad = TRUE,
              !.J = r.loss.J,
              !.J_grad_norm = NormSq(r.loss.graph)]

\* A logging branch on which the optimizer step depends.
PrintLogSkipsStep(r) ==
    IF r.call.logging
    THEN [r EXCEPT !.pc = "step",
                   !.output = Append(r.output,
                                 [n |-> r.n, J |-> r.J, J_grad_norm |-> r.J_grad_norm])]
    ELSE [r EXCEPT !.pc = "append"]

\* if logging: print(...)  (lines 46-49 / 117-121)
PrintLog(r) ==
    IF r.call.logging
    THEN [r EXCEPT !.pc = "step",
                   !.output = Append(r.output,
                                 [n |-> r.n, J |-> r.J, J_grad_norm |-> r.J_grad_norm])]
    ELSE [r EXCEPT !.pc = "step"]

\* trainer.step()  (lines 50 / 122): a parameter without gradient is skipped.
StepWith(r, m) ==
    [r EXCEPT !.pc = "append",
              !.trainer = [t |-> r.trainer.t + 1, exp_avg |-> m],
              !.store[r.new_x0.sid] = AdamUpdate(r.store[r.new_x0.sid], m)]

TrainerStepOf(r) ==
    IF ~r.hasGrad THEN [r EXCEPT !.pc = "append"]
    ELSE StepWith(r, AdamMoment(r.trainer, r.grad))

\* The appends of the cost and gradient norm (lines 51-52 / 123-125);
\* loss_Jo is the int 0, without .item(), when time_obs has one entry.
AppendWith(r, l) ==
    IF Is3D(r)
    THEN [r EXCEPT !.pc = "snapshot",
                   !.intermediate_results.J = Append(@, l.J),
                   !.intermediate_results.J_grad_norm = Append(@, r.J_grad_norm)]
    ELSE IF ~l.JoIsTensor
    THEN [r EXCEPT !.pc = "raised", !.error = "AttributeError",
                   !.intermediate_results.Jb = Append(@, l.Jb)]
    ELSE [r EXCEPT !.pc = "snapshot",
                   !.intermediate_results.Jb = Append(@, l.Jb),
                   !.intermediate_results.Jo = Append(@, l.Jo),
                   !.intermediate_results.J_grad_norm = Append(@, r.J_grad_norm)]

\* Appends that record the cost of the candidate after the step.
AppendOfUpdated(r) == AppendWith(r, LossOf(r))

AppendOf(r) ==
    IF Is3D(r)
    THEN [r EXCEPT !.pc = "snapshot",
                   !.intermediate_results.J = Append(@, r.J),
                   !.intermediate_results.J_grad_norm = Append(@, r.J_grad_norm)]
    ELSE IF ~r.loss.JoIsTensor
    THEN [r EXCEPT !.pc = "raised", !.error = "AttributeError",
                   !.intermediate_results.Jb = Append(@, r.loss.Jb)]
    ELSE [r EXCEPT !.pc = "snapshot",
                   !.intermediate_results.Jb = Append(@, r.loss.Jb),
                   !.intermediate_results.Jo = Append(@, r.loss.Jo),
                   !.intermediate_results.J_grad_norm = Append(@, r.J_grad_norm)]

\* latest_x0 = new_x0.detach().clone()[.reshape_as(xb)] and its append
\* (lines 53-54 / 126-127); the loop then takes its next index.
SnapshotWith(r, st, latest) ==
    [r EXCEPT !.pc = "loop",
              !.store = st,
              !.latest_x0 = latest,
              !.intermediate_results.background_states = Append(@, latest),
              !.n = r.n + 1]

SnapshotClone(r, cl) ==
    SnapshotWith(r, cl.store, IF Is3D(r) THEN ReshapeAs(cl.ref, r.call.xb) ELSE cl.ref)

SnapshotOf(r) == SnapshotClone(r, Clone(r.store, r.new_x0))

\* return latest_x0, intermediate_results  (lines 56 / 129)
ReturnOf(r) ==
    IF r.latest_x0 = NoRef THEN Raise(r, "UnboundLocalError")
    ELSE [r EXCEPT !.pc = "returned"]

\* After the call: the caller writes v into the first row of the tensor
\* it was returned.
MutateOf(r, v) ==
    [r EXCEPT !.pc = "mutated", !.store[r.latest_x0.sid][1] = v]

\* The step the solver takes from r (r.pc is a solver position).
StepOf(r) ==
    CASE r.pc = "setup" -> SetupOf(r)
      [] r.pc = "loop" -> LoopOf(r)
      [] r.pc = "zero_grad" -> ZeroGradOf(r)
      [] r.pc = "forward" -> ForwardOf(r)
      [] r.pc = "backward" -> BackwardOf(r)
      [] r.pc = "log" -> PrintLog(r)
      [] r.pc = "step" -> TrainerStepOf(r)
      [] r.pc = "append" -> AppendOf(r)
      [] r.pc = "snapshot" -> SnapshotOf(r)
      [] r.pc = "return" -> ReturnOf(r)
      [] OTHER -> r

\* ------------------------------------------------------------ solver inputs
\* Tensor values [shape, data]: 1-D with one element, or 2-D with S rows.
TensorValues(V) ==
    {[shape |-> <<1>>, data |-> <<v>>] : v \in V}
    \cup UNION {{[shape |-> <<S, 1>>, data |-> d] : d \in [1..S -> V]} : S \in 1..MaxSeq}

ConstTensors(V) ==
    {[shape |-> <<1>>, data |-> <<v>>] : v \in V}
    \cup UNION {{[shape |-> <<S, 1>>, data |-> [i \in 1..S |-> v]] : v \in V} : S \in 1..MaxSeq}

Calls3D ==
    {[algorithm |-> "3DVar", H |-> op.H, Binv |-> op.Binv, Rinv |-> op.Rinv,
      xb |-> [shape |-> xv.shape, sid |-> 1], xb_before |-> xv.data, y |-> yv,
      max_iterations |-> N, logging |-> TRUE,
      gap |-> 0, time_obs |-> <<>>, M |-> [drift |-> 0, seqlen |-> 1], args |-> <<>>] :
        op \in OperatorSet,
        xv \in TensorValues(Vals), yv \in ConstTensors(Vals) \cup TensorValues({1}),
        N \in 0..MaxIter}

\* time_obs of length L: 0, 1, 3, 6, ... (unevenly spaced, increasing).
TimeObs(L) == [k \in 1..L |-> ((k - 1) * k) \div 2]

\* y of shape (L, Sy): constant, or distinct along both indices.
Ys4D(L) ==
    UNION {{[shape |-> <<L, Sy>>, data |-> [k \in 1..L |-> [i \in 1..Sy |-> v]]] : v \in Vals4D}
           \cup {[shape |-> <<L, Sy>>, data |-> [k \in 1..L |-> [i \in 1..Sy |-> k + i - 2]]]}
           : Sy \in 1..MaxSeq}

Calls4D ==
    UNION {{[algorithm |-> "4DVar", H |-> op.H, Binv |-> op.Binv, Rinv |-> op.Rinv,
             xb |-> [shape |-> <<1>>, sid |-> 1], xb_before |-> <<xv>>, y |-> yv,
             max_iterations |-> N, logging |-> TRUE,
             gap |-> g, time_obs |-> TimeObs(L),
             M |-> [drift |-> d, seqlen |-> sl], args |-> a] :
               op \in OperatorSet, xv \in Vals4D, yv \in Ys4D(L),
               N \in 0..MaxIter, g \in 0..MaxGap,
               d \in DriftSet, sl \in 1..MaxSeq, a \in ArgsSet} : L \in 1..MaxL}

\* The solver's state at the entry of a call with arguments c.
Entry(c) ==
    [call |-> c, pc |-> "setup", n |-> 0, error |-> "none",
     store |-> <<c.xb_before>>, new_x0 |-> NoRef, grad |-> <<>>, hasGrad |-> FALSE,
     trainer |-> [t |-> 0, exp_avg |-> <<>>],
     loss |-> [error |-> "none"], J |-> 0, J_grad_norm |-> 0,
     intermediate_results |-> EmptyResults(c.algorithm),
     latest_x0 |-> NoRef, output |-> <<>>, Mcalls |-> <<>>, JoTerms |-> <<>>,
     evals |-> <<>>]

\* ------------------------------------------------------------- CaseBuilder
\* Python values: [type, v, ndim, data].  A number carries its value in v
\* (a float in thousandths); a tensor or nested list carries its rows in
\* data and its number of dimensions in ndim.
Val(ty, n) == [type |-> ty, v |-> n, ndim |-> 0, data |-> <<>>]

NoneV == Val("NoneType", 0)

Tensor(nd, rows) == [type |-> "Tensor", v |-> 0, ndim |-> nd, data |-> rows]

IsInt(x) == x.type \in {"int", "bool"}

IsNumber(x) == x.type \in {"int", "bool", "float"}

Dims == {1, 2}
Entries == {0, 1}

Grids == UNION {[1..rr -> [1..cc -> Entries]] : rr \in Dims, cc \in Dims}

\* The arguments offered to the covariance setters: 2-D tensors of every
\* shape, 1-D and 3-D tensors, and a nested list that is no tensor.
CovArgs ==
    {Tensor(2, g) : g \in Grids}
    \cup {Tensor(1, g) : g \in {h \in Grids : Len(h) = 1}}
    \cup {Tensor(3, g) : g \in {h \in Grids : Len(h) = 1 /\ Len(h[1]) = 1}}
    \cup {[type |-> "list", v |-> 0, ndim |-> 0, data |-> <<<<1, 0>>, <<0, 1>>>>]}

\* cov_matrix.T
Transpose(d) == [j \in 1..Len(d[1]) |-> [i \in 1..Len(d) |-> d[i][j]]]

\* torch.allclose(a, b): |a - b| <= atol + rtol * |b| with atol = 1e-8 and
\* rtol = 1e-5, both sides scaled by 10^8.
AllClose(a, b) ==
    \A i \in 1..Len(a) : \A j \in 1..Len(a[i]) :
        100000000 * Abs(a[i][j] - b[i][j]) <= 1 + 1000 * Abs(b[i][j])

Minor(d, col) ==
    [i \in 1..(Len(d) - 1) |->
        [j \in 1..(Len(d) - 1) |-> d[i + 1][IF j < col THEN j ELSE j + 1]]]

\* The determinant, expanded along the first row.
RECURSIVE Det(_)
Det(d) ==
    IF Len(d) = 1 THEN d[1][1]
    ELSE SumSeq([j \in 1..Len(d) |->
                   (IF j % 2 = 1 THEN 1 ELSE -1) * d[1][j] * Det(Minor(d, j))])

Increasing(n, k) == {f \in [1..k -> 1..n] : \A i \in 1..(k - 1) : f[i] < f[i + 1]}

Sub(d, rs, cs) == [i \in 1..Len(rs) |-> [j \in 1..Len(cs) |-> d[rs[i]][cs[j]]]]

HasMinor(d, k) ==
    \E rs \in Increasing(Len(d), k) : \E cs \in Increasing(Len(d[1]), k) :
        Det(Sub(d, rs, cs)) # 0

\* torch.linalg.matrix_rank(cov_matrix): the largest k for which some
\* k x k submatrix has a non-zero determinant.
MatrixRank(d) ==
    Cardinality({k \in 1..Min(Len(d), Len(d[1])) : HasMinor(d, k)})

\* The checks of check_covariance_matrix with the rank tested before symmetry.
check_covariance_matrix_rank_first(cov_matrix) ==
    IF cov_matrix.ndim # 2 \/ Len(cov_matrix.data) # Len(cov_matrix.data[1])
    THEN "LinAlgError: should be a 2D square matrix"
    ELSE IF MatrixRank(cov_matrix.data) # Len(cov_matrix.data)
    THEN "LinAlgError: singular matrix"
    ELSE IF ~AllClose(cov_matrix.data, Transpose(cov_matrix.data))
    THEN "LinAlgError: should be a symmetric matrix"
    ELSE "ok"

\* CaseBuilder.check_covariance_matrix: "ok", or the error it raises.
check_covariance_matrix(cov_matrix) ==
    IF cov_matrix.ndim # 2 \/ Len(cov_matrix.data) # Len(cov_matrix.data[1])
    THEN "LinAlgError: should be a 2D square matrix"
    ELSE IF ~AllClose(cov_matrix.data, Transpose(cov_matrix.data))
    THEN "LinAlgError: should be a symmetric matrix"
    ELSE IF MatrixRank(cov_matrix.data) # Len(cov_matrix.data)
    THEN "LinAlgError: singular matrix"
    ELSE "ok"

\* The outcome of a builder call: what it raised ("ok" if nothing) and the
\* parameters the builder holds afterwards.
Outcome(res, params) == [result |-> res, parameters |-> params]

Raised(o) == o.result # "ok"

\* Parameters(): the record with every field at its default.
DefaultParameters ==
    [algorithm |-> Val("Algorithms", 1),
     background_covariance_matrix |-> NoneV,
     observation_covariance_matrix |-> NoneV,
     gap |-> Val("int", 1),
     max_iterations |-> Val("int", 1000),
     learning_rate |-> Val("float", 1),
     logging |-> Val("bool", 1)]

set_algorithm(p, algorithm) ==
    IF algorithm.type = "Algorithms"
    THEN Outcome("ok", [p EXCEPT !.algorithm = algorithm])
    ELSE Outcome("ok", p)

StoreCov(p, name, cov, checked) ==
    IF checked # "ok" THEN Outcome(checked, p)
    ELSE Outcome("ok", [p EXCEPT ![name] = cov])

SetCov(p, name, cov) ==
    IF cov.type # "Tensor" THEN Outcome("TypeError", p)
    ELSE StoreCov(p, name, cov, check_covariance_matrix(cov))

set_background_covariance_matrix(p, background_covariance_matrix) ==
    SetCov(p, "background_covariance_matrix", background_covariance_matrix)

set_observation_covariance_matrix(p, observation_covariance_matrix) ==
    SetCov(p, "observation_covariance_matrix", observation_covariance_matrix)

set_gap(p, gap) ==
    IF ~IsInt(gap) THEN Outcome("TypeError", p)
    ELSE Outcome("ok", [p EXCEPT !.gap = gap])

set_max_iterations(p, max_iterations) ==
    IF ~IsInt(max_iterations) THEN Outcome("TypeError", p)
    ELSE Outcome("ok", [p EXCEPT !.max_iterations = max_iterations])

set_learning_rate(p, learning_rate) ==
    IF ~IsNumber(learning_rate) THEN Outcome("TypeError", p)
    ELSE Outcome("ok", [p EXCEPT !.learning_rate = learning_rate])

set_logging(p, logging) ==
    IF logging.type # "bool" THEN Outcome("TypeError", p)
    ELSE Outcome("ok", [p EXCEPT !.logging = logging])

\* hasattr(self.__parameters, name): the fields, and what every object has.
HasAttr(name) == name \in DOMAIN DefaultParameters \cup {"__class__"}

\* getattr(self, f"set_{name}", None) is not None
HasSetter(name) == name \in DOMAIN DefaultParameters

\* CaseBuilder.set_parameter
set_parameter(p, name, value) ==
    IF ~HasAttr(name) THEN Outcome("AttributeError", p)
    ELSE IF ~HasSetter(name) THEN Outcome("AttributeError", p)
    ELSE CASE name = "algorithm" -> set_algorithm(p, value)
           [] name = "background_covariance_matrix" ->
                set_background_covariance_matrix(p, value)
           [] name = "observation_covariance_matrix" ->
                set_observation_covariance_matrix(p, value)
           [] name = "gap" -> set_gap(p, value)
           [] name = "max_iterations" -> set_max_iterations(p, value)
           [] name = "learning_rate" -> set_learning_rate(p, value)
           [] name = "logging" -> set_logging(p, value)

\* The loop of set_all_parameters over parameters.items(), on the fresh
\* checked_builder; it ends at the first entry that raises.
CheckedBuilder(entries) ==
    LET checked[k \in 0..Len(entries)] ==
          IF k = 0 THEN Outcome("ok", DefaultParameters)
          ELSE IF Raised(checked[k - 1]) THEN checked[k - 1]
          ELSE set_parameter(checked[k - 1].parameters, entries[k].name, entries[k].value)
    IN  checked[Len(entries)]

Adopt(p, checked) ==
    IF Raised(checked) THEN Outcome(checked.result, p)
    ELSE Outcome("ok", checked.parameters)

\* CaseBuilder.set_all_parameters, on the items of the dict it is given.
set_all_parameters(p, entries) == Adopt(p, CheckedBuilder(entries))

\* asdict(parameters): the items of a Parameters instance, in field order.
FieldOrder ==
    <<"algorithm", "background_covariance_matrix", "observation_covariance_matrix",
      "gap", "max_iterations", "learning_rate", "logging">>

AsDict(params) ==
    [k \in 1..Len(FieldOrder) |-> [name |-> FieldOrder[k], value |-> params[FieldOrder[k]]]]

\* ---------------------------------------------------------------- state
\* run: the solver call under way, with logging on.  twin: the same call
\* with logging off, taking its steps alongside.
\* parameters: the record a CaseBuilder holds.  last: its latest call, as
\* the items it was given, what it raised and the record held before it.
VARIABLES run, twin, parameters, last

vars == <<run, twin, parameters, last>>

NoCall ==
    [op |-> "CaseBuilder", entries |-> <<>>, result |-> "ok", before |-> DefaultParameters]

Idle == [pc |-> "idle"]

InitCall(c) ==
    /\ run = Entry(c)
    /\ twin = Entry([c EXCEPT !.logging = FALSE])
    /\ parameters = DefaultParameters
    /\ last = NoCall

Init ==
    \/ \E c \in Calls3D : InitCall(c)
    \/ \E c \in Calls4D : InitCall(c)

Along == twin' = StepOf(twin) /\ UNCHANGED <<parameters, last>>

Setup == run.pc = "setup" /\ run' = SetupOf(run) /\ Along

Loop == run.pc = "loop" /\ run' = LoopOf(run) /\ Along

ZeroGrad == run.pc = "zero_grad" /\ run' = ZeroGradOf(run) /\ Along

Forward == run.pc = "forward" /\ run' = ForwardOf(run) /\ Along

Backward == run.pc = "backward" /\ run' = BackwardOf(run) /\ Along

Log == run.pc = "log" /\ run' = PrintLog(run) /\ Along

TrainerStep == run.pc = "step" /\ run' = TrainerStepOf(run) /\ Along

AppendCost == run.pc = "append" /\ run' = AppendOf(run) /\ Along

Snapshot == run.pc = "snapshot" /\ run' = SnapshotOf(run) /\ Along

Return == run.pc = "return" /\ run' = ReturnOf(run) /\ Along

CallerMutates ==
    /\ run.pc = "returned"
    /\ \E v \in MutVals :
         /\ run' = MutateOf(run, v)
         /\ twin' = IF twin.pc = "returned" THEN MutateOf(twin, v) ELSE StepOf(twin)
    /\ UNCHANGED <<parameters, last>>

Next ==
    \/ Setup
    \/ Loop
    \/ ZeroGrad
    \/ Forward
    \/ Backward
    \/ Log
    \/ TrainerStep
    \/ AppendCost
    \/ Snapshot
    \/ Return
    \/ CallerMutates

Spec == Init /\ [][Next]_vars

\* ---------------------------------------------------- the builder's calls
MaxEntries == 2

Entry2(n, v) == [name |-> n, value |-> v]

\* The items offered to set_parameter and, in dicts, to set_all_parameters.
EntryPool ==
    {Entry2("gap", v) : v \in {Val("int", 0), Val("bool", 1), Val("float", 5)}}
    \cup {Entry2("max_iterations", v) : v \in {Val("int", 0), Val("str", 0)}}
    \cup {Entry2("learning_rate", v) : v \in {Val("int", 0), Val("float", -5), Val("str", 0)}}
    \cup {Entry2("logging", v) : v \in {Val("bool", 0), Val("int", 0)}}
    \cup {Entry2("algorithm", v) : v \in {Val("Algorithms", 2), Val("Device", 1)}}
    \cup {Entry2("bogus", Val("int", 3)), Entry2("__class__", Val("int", 3))}

PoolOf(n) == {e.value : e \in {x \in EntryPool : x.name = n}}

Dicts ==
    {d \in UNION {[1..k -> EntryPool] : k \in 0..MaxEntries} :
        \A i, j \in 1..Len(d) : i # j => d[i].name # d[j].name}

\* Parameters instances handed to set_all_parameters.
Instances ==
    {DefaultParameters,
     [DefaultParameters EXCEPT !.background_covariance_matrix = Tensor(2, <<<<1>>>>),
                               !.observation_covariance_matrix = Tensor(2, <<<<1>>>>),
                               !.gap = Val("int", 0)]}

Call(op, entries, o) ==
    /\ parameters' = o.parameters
    /\ last' = [op |-> op, entries |-> entries, result |-> o.result, before |-> parameters]
    /\ UNCHANGED <<run, twin>>

InitBuilder ==
    /\ run = Idle
    /\ twin = Idle
    /\ parameters = DefaultParameters
    /\ last = NoCall

SetBackgroundCovariance ==
    \E x \in CovArgs :
        Call("set_background_covariance_matrix",
             <<Entry2("background_covariance_matrix", x)>>,
             set_background_covariance_matrix(parameters, x))

SetObservationCovariance ==
    \E x \in CovArgs :
        Call("set_observation_covariance_matrix",
             <<Entry2("observation_covariance_matrix", x)>>,
             set_observation_covariance_matrix(parameters, x))

NextCov == SetBackgroundCovariance \/ SetObservationCovariance

SpecCov == InitBuilder /\ [][NextCov]_vars

SetAlgorithm ==
    \E x \in PoolOf("algorithm") :
        Call("set_algorithm", <<Entry2("algorithm", x)>>, set_algorithm(parameters, x))

SetGap ==
    \E x \in PoolOf("gap") :
        Call("set_gap", <<Entry2("gap", x)>>, set_gap(parameters, x))

SetMaxIterations ==
    \E x \in PoolOf("max_iterations") :
        Call("set_max_iterations", <<Entry2("max_iterations", x)>>,
             set_max_iterations(parameters, x))

SetLearningRate ==
    \E x \in PoolOf("learning_rate") :
        Call("set_learning_rate", <<Entry2("learning_rate", x)>>,
             set_learning_rate(parameters, x))

SetLogging ==
    \E x \in PoolOf("logging") :
        Call("set_logging", <<Entry2("logging", x)>>, set_logging(parameters, x))

SetParameter ==
    \E e \in EntryPool :
        Call("set_parameter", <<e>>, set_parameter(parameters, e.name, e.value))

SetAllParameters ==
    \E d \in Dicts : Call("set_all_parameters", d, set_all_parameters(parameters, d))

SetAllParametersFrom ==
    \E i \in Instances :
        Call("set_all_parameters", AsDict(i), set_all_parameters(parameters, AsDict(i)))

NextBuilder ==
    \/ SetAlgorithm
    \/ SetGap
    \/ SetMaxIterations
    \/ SetLearningRate
    \/ SetLogging
    \/ SetParameter
    \/ SetAllParameters
    \/ SetAllParametersFrom

SpecBuilder == InitBuilder /\ [][NextBuilder]_vars

\* ------------------------------------------------------- solver properties
Runs == {run, twin}

Results(r) == r.intermediate_results

States(r) == r.intermediate_results.background_states

AllLengths(r, k) == \A key \in DOMAIN Results(r) : Len(Results(r)[key]) = k

Finished(r) == r.pc \in {"returned", "mutated"}

BetweenIterations(r) == r.pc \in {"loop", "return", "returned", "mutated"}

BeforeAppends(r) == r.pc \in {"zero_grad", "forward", "backward", "log", "step", "append"}

\* C1: every diagnostics list has length k after k completed iterations,
\* the loop ends only at n = max_iterations whatever the cost or gradient,
\* and on return every list has length max_iterations.
C1_ExactlyMaxIterations ==
    \A r \in Runs :
      /\ (BetweenIterations(r) \/ BeforeAppends(r)) => AllLengths(r, r.n)
      /\ r.pc \in {"return", "returned", "mutated"} => r.n = r.call.max_iterations
      /\ Finished(r) => /\ r.call.max_iterations >= 1
                        /\ AllLengths(r, r.call.max_iterations)
                        /\ r.trainer.t = r.call.max_iterations
                        /\ Len(r.evals) = r.call.max_iterations

C1_Witness ==
    /\ run.pc = "returned"
    /\ run.call.algorithm = "4DVar"
    /\ run.call.max_iterations = MaxIter
    /\ Len(Results(run).Jo) = MaxIter
    /\ Results(run).J_grad_norm[MaxIter] = 0

\* The entries of xf that the claim expects in loss_Jo for one segment: the
\* trailing gap entries, the indices 2 .. gap + 1 of the gap + 1 grid points.
ExpectedTerms(c) ==
    [t \in 1..((Len(c.time_obs) - 1) * c.gap) |->
        [iobs |-> ((t - 1) \div c.gap) + 1, j |-> ((t - 1) % c.gap) + 2]]

\* C2: in every iteration of apply_4DVar, loss_Jo sums (L - 1) * gap terms:
\* for each segment the trailing gap entries of M's output, without the
\* grid's starting point.
C2_TrailingGapEntries ==
    (run.call.algorithm = "4DVar" /\ run.pc = "backward" /\ run.call.gap >= 1)
        => run.JoTerms = ExpectedTerms(run.call)

\* C3: xb keeps its values, and a recorded snapshot keeps its values through
\* every later step of the solver; a write to the returned tensor after the
\* call changes no snapshot of an earlier iteration.
XbUntouched(r) == r.store[r.call.xb.sid] = r.call.xb_before

Frozen(r, rn) ==
    \A k \in 1..Len(States(r)) :
        (rn.pc = "mutated" /\ k = Len(States(r)))
            \/ rn.store[States(r)[k].sid] = r.store[States(r)[k].sid]

C3_SnapshotIsolation ==
    /\ [](XbUntouched(run) /\ XbUntouched(twin))
    /\ [][Frozen(run, run') /\ Frozen(twin, twin')]_vars

C3_Witness ==
    /\ run.pc = "mutated"
    /\ Len(States(run)) = MaxIter
    /\ run.store[States(run)[1].sid] # run.call.xb_before
    /\ run.store[run.latest_x0.sid] # run.store[run.new_x0.sid]
    /\ XbUntouched(run)

\* C4: 3D-Var with H the identity, B = R = I and xb = y records J = 0 and
\* gradient norm 0 in every iteration, and the candidate and every snapshot
\* stay at xb.
AtOptimum(c) ==
    /\ c.algorithm = "3DVar"
    /\ c.H = "identity" /\ c.Binv = 1 /\ c.Rinv = 1
    /\ c.y = [shape |-> c.xb.shape, data |-> c.xb_before]

C4_StaysAtOptimum ==
    \A r \in Runs :
      (AtOptimum(r.call) /\ r.pc # "mutated") =>
        /\ \A k \in 1..Len(Results(r).J) : Results(r).J[k] = 0
        /\ \A k \in 1..Len(Results(r).J_grad_norm) : Results(r).J_grad_norm[k] = 0
        /\ \A k \in 1..Len(States(r)) : r.store[States(r)[k].sid] = r.call.xb_before
        /\ r.new_x0 # NoRef => r.store[r.new_x0.sid] = r.call.xb_before

C4_Witness ==
    /\ AtOptimum(run.call)
    /\ run.pc = "returned"
    /\ Len(run.call.xb_before) = 2
    /\ Results(run).J = [k \in 1..MaxIter |-> 0]
    /\ run.trainer.t = MaxIter

\* C7: the run with logging and the run without take the same steps and hold
\* the same values throughout, the printed lines apart: one line per
\* iteration with logging, none without.
Unlogged(r) == [r EXCEPT !.output = <<>>, !.call.logging = FALSE]

Printed(r) == IF r.pc \in {"step", "append", "snapshot"} THEN r.n + 1 ELSE r.n

C7_LoggingObservational ==
    /\ Unlogged(run) = twin
    /\ run.pc # "raised" => Len(run.output) = Printed(run)
    /\ \A k \in 1..Len(run.output) : run.output[k].n = k - 1

C7_Witness ==
    /\ run.pc = "returned"
    /\ run.call.algorithm = "4DVar"
    /\ Len(run.output) = MaxIter
    /\ twin.output = <<>>
    /\ run.store[run.latest_x0.sid] # run.call.xb_before
    /\ Len(run.Mcalls) = MaxL - 1

\* The single state the claim expects M to be given in segment k.
ExpectedState(r, k) ==
    IF k = 1 THEN r.evals[Len(r.evals)]
    ELSE << r.Mcalls[k - 1].xf[Len(r.Mcalls[k - 1].xf)] >>

\* C8: in every iteration M is called once per pair of consecutive
\* observation times, in order, on the grid of gap + 1 evenly spaced points
\* from the previous time to the next, with args forwarded, and with a
\* single state: the candidate first, then the last state of the previous
\* segment.
C8_ChainedSingleState ==
    (run.call.algorithm = "4DVar" /\ run.pc = "backward" /\ run.call.gap >= 1) =>
      /\ Len(run.Mcalls) = Len(run.call.time_obs) - 1
      /\ \A k \in 1..Len(run.Mcalls) :
           /\ run.Mcalls[k].time_fw =
                Linspace(run.call.time_obs[k], run.call.time_obs[k + 1], run.call.gap + 1)
           /\ run.Mcalls[k].time_fw[1] = <<run.call.time_obs[k] * run.call.gap, run.call.gap>>
           /\ run.Mcalls[k].time_fw[run.call.gap + 1]
                = <<run.call.time_obs[k + 1] * run.call.gap, run.call.gap>>
           /\ run.Mcalls[k].args = run.call.args
           /\ run.Mcalls[k].state = ExpectedState(run, k)

\* The candidate before the k-th optimizer step: xb for the first, the
\* previous snapshot afterwards.
Before(r, k) == IF k = 1 THEN r.call.xb_before ELSE r.store[States(r)[k - 1].sid]

CostBefore(r, k) ==
    IF Is3D(r) THEN Loss3D(r.call, Before(r, k), r.call.xb_before)
    ELSE Loss4D(r.call, Before(r, k), r.call.xb_before)

RecordedCost(r, k, l) ==
    /\ IF Is3D(r) THEN Results(r).J[k] = l.J
       ELSE Results(r).Jb[k] = l.Jb /\ Results(r).Jo[k] = l.Jo
    /\ Results(r).J_grad_norm[k] = NormSq(l.graph)

OneStepApart(a, b) == Len(a) = Len(b) /\ \A i \in 1..Len(a) : Abs(a[i] - b[i]) <= 1

\* C9: the cost and gradient norm recorded in iteration k are those of the
\* candidate before the k-th step; each iteration applies one optimizer
\* step; snapshot k is the candidate after the k-th step; the returned
\* state is the last snapshot, and the cost is evaluated max_iterations
\* times, never at the returned state.
C9_RecordedBeforeStep ==
    \A r \in Runs :
      /\ (BetweenIterations(r) \/ BeforeAppends(r)) =>
           \A k \in 1..r.n :
             /\ RecordedCost(r, k, CostBefore(r, k))
             /\ r.evals[k] = Before(r, k)
             /\ (k < r.n \/ r.pc # "mutated")
                  => OneStepApart(Before(r, k), r.store[States(r)[k].sid])
      /\ BetweenIterations(r) =>
           /\ r.trainer.t = r.n
           /\ Len(r.evals) = r.n
           /\ (r.n >= 1 /\ r.pc # "mutated")
                => r.store[States(r)[r.n].sid] = r.store[r.new_x0.sid]
      /\ Finished(r) => r.latest_x0 = States(r)[r.call.max_iterations]

C9_Witness ==
    /\ run.pc = "returned"
    /\ run.call.algorithm = "3DVar"
    /\ run.n = MaxIter
    /\ Results(run).J[1] > Results(run).J[MaxIter]
    /\ Results(run).J_grad_norm[MaxIter] > 0
    /\ run.store[States(run)[1].sid] # run.store[States(run)[MaxIter].sid]

\* ------------------------------------------------------ builder properties
CovSetters == {"set_background_covariance_matrix", "set_observation_covariance_matrix"}

IsSquare2D(x) == x.ndim = 2 /\ Len(x.data) = Len(x.data[1])

IsSymmetric(x) ==
    \A i \in 1..Len(x.data) : \A j \in 1..Len(x.data) : x.data[i][j] = x.data[j][i]

\* Some non-zero combination of the columns vanishes.
IsSingular(x) ==
    \E u \in [1..Len(x.data) -> -2..2] :
        /\ \E j \in 1..Len(x.data) : u[j] # 0
        /\ \A i \in 1..Len(x.data) :
             SumSeq([j \in 1..Len(x.data) |-> x.data[i][j] * u[j]]) = 0

FirstFailure(x) ==
    IF ~IsSquare2D(x) THEN "LinAlgError: should be a 2D square matrix"
    ELSE IF ~IsSymmetric(x) THEN "LinAlgError: should be a symmetric matrix"
    ELSE IF IsSingular(x) THEN "LinAlgError: singular matrix"
    ELSE "ok"

\* C5: the check passes exactly on 2-D square, symmetric, full-rank
\* matrices and otherwise raises the error of the first failing check, in
\* the order shape, symmetry, rank; a covariance setter stores the matrix
\* when the check passes and leaves the builder's record as it was when
\* it does not.
C5_CovarianceChecked ==
    (last.op \in CovSetters /\ last.entries[1].value.type = "Tensor") =>
      /\ last.result = FirstFailure(last.entries[1].value)
      /\ check_covariance_matrix(last.entries[1].value) = last.result
      /\ last.result = "ok" =>
           parameters = [last.before EXCEPT ![last.entries[1].name] = last.entries[1].value]
      /\ last.result # "ok" => parameters = last.before

C5_Witness ==
    /\ last.op = "set_background_covariance_matrix"
    /\ last.result = "LinAlgError: singular matrix"
    /\ parameters.background_covariance_matrix = Tensor(2, <<<<0, 1>>, <<1, 0>>>>)
    /\ parameters.observation_covariance_matrix = Tensor(2, <<<<1>>>>)

Positive(x, types) == x.type \in types /\ x.v > 0

Violating(e) ==
    \/ e.name \in {"max_iterations", "gap"} /\ ~Positive(e.value, {"int"})
    \/ e.name = "learning_rate" /\ ~Positive(e.value, {"int", "float"})

\* C6: every record the builder holds has max_iterations >= 1,
\* learning_rate > 0 and gap >= 1, and a call that carries a violating
\* value (0, a negative number, a bool) for one of them is rejected.
C6_ValidatedOnAssignment ==
    /\ Positive(parameters.max_iterations, {"int"})
    /\ Positive(parameters.learning_rate, {"int", "float"})
    /\ Positive(parameters.gap, {"int"})
    /\ (\E k \in 1..Len(last.entries) : Violating(last.entries[k])) => last.result # "ok"

\* What a setter's validation accepts for its field.
Accepted(e) ==
    CASE e.name = "algorithm" -> e.value.type = "Algorithms"
      [] e.name \in {"background_covariance_matrix", "observation_covariance_matrix"} ->
           e.value.type = "Tensor" /\ FirstFailure(e.value) = "ok"
      [] e.name \in {"gap", "max_iterations"} -> IsInt(e.value)
      [] e.name = "learning_rate" -> IsNumber(e.value)
      [] e.name = "logging" -> e.value.type = "bool"
      [] OTHER -> FALSE

\* A fresh record holding the given values, every other field at its default.
Fresh(entries) ==
    [f \in DOMAIN DefaultParameters |->
        IF \E k \in 1..Len(entries) : entries[k].name = f
        THEN entries[CHOOSE k \in 1..Len(entries) : entries[k].name = f].value
        ELSE DefaultParameters[f]]

\* C10: set_all_parameters raises and leaves the record as it was when some
\* entry names no field, has no setter or fails its setter's validation;
\* otherwise it replaces the record by a fresh one holding the given values.
\* A failing set_parameter or set_<name> call leaves the record as it was.
C10_AllOrNothing ==
    /\ last.op = "set_all_parameters" =>
         IF \E k \in 1..Len(last.entries) : ~Accepted(last.entries[k])
         THEN last.result # "ok" /\ parameters = last.before
         ELSE last.result = "ok" /\ parameters = Fresh(last.entries)
    /\ (last.op # "set_all_parameters" /\ last.result # "ok") => parameters = last.before

====
